---- MODULE Spec2Model ----
(***************************************************************************)
(* A model of the PostHog provider: PostHogHook (hooks/posthog.py) and     *)
(* PostHogTrackEventOperator (operators/posthog_track_event.py).           *)
(*                                                                         *)
(* The process holds one vendor client (the imported module `posthog`),    *)
(* a heap of constructed hook objects, and worker threads that construct   *)
(* hooks, call get_conn, or construct and execute operators.  The vendor   *)
(* client may invoke the installed on_error callback at any time.          *)
(***************************************************************************)
EXTENDS Naturals, Sequences, FiniteSets, TLC

VARIABLES
    client,     \* the posthog module's fields: debug, on_error, project_api_key
    captured,   \* per thread: the posthog.capture calls its task has made, in order
    hooks,      \* heap of successfully constructed PostHogHook objects
    lastConn,   \* the hook whose get_conn returned most recently (0 = none yet)
    pc,         \* per thread: position in the code
    self,       \* per thread: the hook it holds (index into hooks, 0 = none)
    init,       \* per thread: the posthog_conn_id its PostHogHook.__init__ call was given
    op,         \* per thread: the operator object's fields
    kwargs,     \* per thread: the `properties` argument the operator was built with
    outcome,    \* per thread: how its last call ended
    log,        \* per thread: the last line it logged
    cb          \* the vendor client's callback invocation (on_error)

vars == <<client, captured, hooks, lastConn, pc, self, init, op, kwargs,
          outcome, log, cb>>

-----------------------------------------------------------------------------
(* Bounds *)

MaxHooks == 2

Threads == {"t1", "t2"}
\* The threads the scheduler hands operators to.
Executors == {"t1"}

-----------------------------------------------------------------------------
(* Python values *)

None == "<None>"

PyNone == [isNone |-> TRUE, items |-> {}]
Dict(items) == [isNone |-> FALSE, items |-> items]
EmptyDict == Dict({})
Truthy(p) == ~p.isNone /\ p.items # {}

DictGet(d, k) == IF k \in DOMAIN d THEN d[k] ELSE None

Contains(s, sub) ==
    \E i \in 1..(Len(s) + 1) :
        /\ i + Len(sub) - 1 <= Len(s)
        /\ SubSeq(s, i, i + Len(sub) - 1) = sub

NoOutcome == [status |-> "none", exc |-> None, msg |-> "", value |-> None]
Returned(v) == [status |-> "returned", exc |-> None, msg |-> "", value |-> v]
Raised(e, m) == [status |-> "raised", exc |-> e, msg |-> m, value |-> None]

-----------------------------------------------------------------------------
(* The connection store (owned by the framework) *)

ConnIds == {"posthog_default", "posthog_b", "no_key", "null_key", "unknown"}

ConnectionStore ==
    [c \in {"posthog_default", "posthog_b", "no_key", "null_key"} |->
        CASE c = "posthog_default" -> [project_api_key |-> "abc"]
          [] c = "posthog_b"       -> [project_api_key |-> "xyz", host |-> "eu"]
          [] c = "no_key"          -> [host |-> "eu"]
          [] c = "null_key"        -> [project_api_key |-> None]]

\* BaseHook.get_connection: the record for the id, or a configuration error.
get_connection(conn_id) ==
    IF conn_id \in DOMAIN ConnectionStore
    THEN [ok |-> TRUE, extra_dejson |-> ConnectionStore[conn_id], exc |-> NoOutcome]
    ELSE [ok |-> FALSE, extra_dejson |-> [x \in {} |-> None],
          exc |-> Raised("AirflowNotFoundException",
                         "The conn_id `" \o conn_id \o "` isn't defined")]

\* The vendor module as imported: nothing configured.
ClientInit == [debug |-> FALSE, on_error |-> 0, project_api_key |-> None]
ClientRef == "posthog"

-----------------------------------------------------------------------------
(* PostHogHook *)

NoHook == [posthog_conn_id |-> None, posthog_debug_mode |-> FALSE,
           project_api_key |-> None]

\* Variant of __init__ without the check of the key.
PostHogHook_NoKeyCheck(posthog_conn_id, posthog_debug_mode) ==
    LET connection == get_connection(posthog_conn_id)
        extras == connection.extra_dejson
        project_api_key == DictGet(extras, "project_api_key")
    IN  IF ~connection.ok
        THEN [ok |-> FALSE, hook |-> NoHook, exc |-> connection.exc]
        ELSE [ok |-> TRUE,
              hook |-> [posthog_conn_id |-> posthog_conn_id,
                        posthog_debug_mode |-> posthog_debug_mode,
                        project_api_key |-> project_api_key],
              exc |-> NoOutcome]

\* PostHogHook.__init__: the constructed object, or the exception raised.
PostHogHook(posthog_conn_id, posthog_debug_mode) ==
    LET connection == get_connection(posthog_conn_id)
        extras == connection.extra_dejson
        project_api_key == DictGet(extras, "project_api_key")
    IN  IF ~connection.ok
        THEN [ok |-> FALSE, hook |-> NoHook, exc |-> connection.exc]
        ELSE IF project_api_key = None
        THEN [ok |-> FALSE, hook |-> NoHook,
              exc |-> Raised("AirflowException", "No PostHog write key provided")]
        ELSE [ok |-> TRUE,
              hook |-> [posthog_conn_id |-> posthog_conn_id,
                        posthog_debug_mode |-> posthog_debug_mode,
                        project_api_key |-> project_api_key],
              exc |-> NoOutcome]

\* Names an instance of PostHogHook answers to: those the class defines and
\* those __init__ sets.
PostHogHookAttrs ==
    {"conn_name_attr", "default_conn_name", "conn_type", "hook_name",
     "__init__", "get_conn", "on_error",
     "posthog_conn_id", "posthog_debug_mode", "_args", "_kwargs",
     "connection", "extras", "project_api_key"}

\* Names inherited from BaseHook that the provider uses.
BaseHookAttrs == {"get_connection", "log"}

HasAttr(name) == name \in PostHogHookAttrs \cup BaseHookAttrs

\* Variant of on_error that logs and returns.
on_error_Swallows(error, items) ==
    [log |-> "Encountered PostHog error: " \o error \o " with items: " \o items,
     outcome |-> Returned(None)]

\* PostHogHook.on_error: what it logs and how it ends.
on_error(error, items) ==
    [log |-> "Encountered PostHog error: " \o error \o " with items: " \o items,
     outcome |-> Raised("AirflowException", "PostHog error: " \o error)]

-----------------------------------------------------------------------------
(* PostHogTrackEventOperator *)

UserIds == {"u1"}
Events == {"signup"}
PropertyArgs == {PyNone, EmptyDict, Dict({<<"plan", "pro">>})}
\* Operators are built with the default posthog_debug_mode.
DebugArgs == {FALSE}

NoOp == [user_id |-> None, event |-> None, properties |-> PyNone,
         posthog_conn_id |-> None, posthog_debug_mode |-> FALSE]

\* PostHogTrackEventOperator.__init__
PostHogTrackEventOperator(user_id, event, properties, posthog_conn_id, posthog_debug_mode) ==
    [user_id |-> user_id,
     event |-> event,
     properties |-> IF Truthy(properties) THEN properties ELSE EmptyDict,
     posthog_conn_id |-> posthog_conn_id,
     posthog_debug_mode |-> posthog_debug_mode]

-----------------------------------------------------------------------------
(* Initial state *)

Init ==
    /\ client = ClientInit
    /\ captured = [t \in Threads |-> <<>>]
    /\ hooks = <<>>
    /\ lastConn = 0
    /\ pc = [t \in Threads |-> "idle"]
    /\ self = [t \in Threads |-> 0]
    /\ init = [t \in Threads |-> None]
    /\ op = [t \in Threads |-> NoOp]
    /\ kwargs = [t \in Threads |-> PyNone]
    /\ outcome = [t \in Threads |-> NoOutcome]
    /\ log = [t \in Threads |-> ""]
    /\ cb = [pc |-> "idle", debug |-> FALSE, error |-> "", items |-> "",
             log |-> "", outcome |-> NoOutcome]

-----------------------------------------------------------------------------------------------------------------------------------------------------
(* Construction of a hook by thread t: PostHogHook(conn_id, debug_mode).   *)
(* A hook whose __init__ raises is never bound to a name, so it does not   *)
(* enter the heap.                                                         *)

\* Variant of the construction that sets the client's debug flag before it
\* looks the key up.
Construct_ConfiguresFirst(t, conn_id, debug_mode) ==
    LET r == PostHogHook(conn_id, debug_mode) IN
    /\ Len(hooks) < MaxHooks
    /\ init' = [init EXCEPT ![t] = conn_id]
    /\ client' = [client EXCEPT !.debug = debug_mode]
    /\ IF r.ok
       THEN /\ hooks' = Append(hooks, r.hook)
            /\ self' = [self EXCEPT ![t] = Len(hooks) + 1]
            /\ UNCHANGED outcome
       ELSE /\ outcome' = [outcome EXCEPT ![t] = r.exc]
            /\ UNCHANGED <<hooks, self>>
    /\ UNCHANGED <<captured, lastConn, op, kwargs, log, cb>>

Construct(t, conn_id, debug_mode) ==
    LET r == PostHogHook(conn_id, debug_mode) IN
    /\ Len(hooks) < MaxHooks
    /\ init' = [init EXCEPT ![t] = conn_id]
    /\ IF r.ok
       THEN /\ hooks' = Append(hooks, r.hook)
            /\ self' = [self EXCEPT ![t] = Len(hooks) + 1]
            /\ UNCHANGED outcome
       ELSE /\ outcome' = [outcome EXCEPT ![t] = r.exc]
            /\ UNCHANGED <<hooks, self>>
    /\ UNCHANGED <<client, captured, lastConn, op, kwargs, log, cb>>

\* A thread constructs a hook directly.
HookInit(t, conn_id, debug_mode) ==
    /\ pc[t] = "idle"
    /\ Construct(t, conn_id, debug_mode)
    /\ pc' = [pc EXCEPT ![t] = IF self'[t] # 0 THEN "hooked" ELSE "raised"]

-----
(* PostHogHook.get_conn, one step per write of a field of the client *)

InGetConn == {"gc_on_error", "gc_key", "gc_return"}

\* Variant of the first write: posthog.debug = False
GcDebug_AlwaysOff(t) ==
    /\ pc[t] \in {"hooked", "got"}
    /\ log' = [log EXCEPT ![t] = "Setting write key for PostHog connection"]
    /\ client' = [client EXCEPT !.debug = FALSE]
    /\ outcome' = [outcome EXCEPT ![t] = NoOutcome]
    /\ pc' = [pc EXCEPT ![t] = "gc_on_error"]
    /\ UNCHANGED <<captured, hooks, lastConn, self, init, op, kwargs, cb>>

\* log.info(...); posthog.debug = self.posthog_debug_mode
GcDebug(t) ==
    /\ pc[t] \in {"hooked", "got"}
    /\ log' = [log EXCEPT ![t] = "Setting write key for PostHog connection"]
    /\ client' = [client EXCEPT !.debug = hooks[self[t]].posthog_debug_mode]
    /\ outcome' = [outcome EXCEPT ![t] = NoOutcome]
    /\ pc' = [pc EXCEPT ![t] = "gc_on_error"]
    /\ UNCHANGED <<captured, hooks, lastConn, self, init, op, kwargs, cb>>

\* Variant of the second write: the callback is installed in debug mode only.
GcOnError_DebugOnly(t) ==
    /\ pc[t] = "gc_on_error"
    /\ log' = [log EXCEPT ![t] =
                 IF hooks[self[t]].posthog_debug_mode
                 THEN "Setting PostHog connection to debug mode"
                 ELSE @]
    /\ client' = IF hooks[self[t]].posthog_debug_mode
                 THEN [client EXCEPT !.on_error = self[t]]
                 ELSE client
    /\ pc' = [pc EXCEPT ![t] = "gc_key"]
    /\ UNCHANGED <<captured, hooks, lastConn, self, init, op, kwargs, outcome, cb>>

\* if self.posthog_debug_mode: log.info(...); posthog.on_error = self.on_error
GcOnError(t) ==
    /\ pc[t] = "gc_on_error"
    /\ log' = [log EXCEPT ![t] =
                 IF hooks[self[t]].posthog_debug_mode
                 THEN "Setting PostHog connection to debug mode"
                 ELSE @]
    /\ client' = [client EXCEPT !.on_error = self[t]]
    /\ pc' = [pc EXCEPT ![t] = "gc_key"]
    /\ UNCHANGED <<captured, hooks, lastConn, self, init, op, kwargs, outcome, cb>>

\* Variant of the third write: the key is set only while none is configured.
GcKey_KeepFirst(t) ==
    /\ pc[t] = "gc_key"
    /\ client' = IF client.project_api_key = None
                 THEN [client EXCEPT !.project_api_key = hooks[self[t]].project_api_key]
                 ELSE client
    /\ pc' = [pc EXCEPT ![t] = "gc_return"]
    /\ UNCHANGED <<captured, hooks, lastConn, self, init, op, kwargs, outcome,
                   log, cb>>

\* Variant of the third write: posthog.project_api_key = self.posthog_conn_id
GcKey_WritesConnId(t) ==
    /\ pc[t] = "gc_key"
    /\ client' = [client EXCEPT !.project_api_key = hooks[self[t]].posthog_conn_id]
    /\ pc' = [pc EXCEPT ![t] = "gc_return"]
    /\ UNCHANGED <<captured, hooks, lastConn, self, init, op, kwargs, outcome,
                   log, cb>>

\* posthog.project_api_key = self.project_api_key
GcKey(t) ==
    /\ pc[t] = "gc_key"
    /\ client' = [client EXCEPT !.project_api_key = hooks[self[t]].project_api_key]
    /\ pc' = [pc EXCEPT ![t] = "gc_return"]
    /\ UNCHANGED <<captured, hooks, lastConn, self, init, op, kwargs, outcome,
                   log, cb>>

\* return posthog
GcReturn(t) ==
    /\ pc[t] = "gc_return"
    /\ outcome' = [outcome EXCEPT ![t] = Returned(ClientRef)]
    /\ lastConn' = self[t]
    /\ pc' = [pc EXCEPT ![t] = "got"]
    /\ UNCHANGED <<client, captured, hooks, self, init, op, kwargs, log, cb>>

-----------------------------------------------------------------------------
(* The operator: construction, then execute *)

NewOperator(t, user_id, event, properties, conn_id, debug_mode) ==
    /\ pc[t] = "idle"
    /\ op' = [op EXCEPT ![t] = PostHogTrackEventOperator(user_id, event, properties,
                                                        conn_id, debug_mode)]
    /\ kwargs' = [kwargs EXCEPT ![t] = properties]
    /\ pc' = [pc EXCEPT ![t] = "op_ready"]
    /\ UNCHANGED <<client, captured, hooks, lastConn, self, init, outcome, log, cb>>

\* Variant of execute that catches a failed construction and returns.
ExHook_Recovers(t) ==
    LET r == PostHogHook(op[t].posthog_conn_id, op[t].posthog_debug_mode) IN
    /\ pc[t] = "op_ready"
    /\ Len(hooks) < MaxHooks
    /\ init' = [init EXCEPT ![t] = op[t].posthog_conn_id]
    /\ IF r.ok
       THEN /\ hooks' = Append(hooks, r.hook)
            /\ self' = [self EXCEPT ![t] = Len(hooks) + 1]
            /\ pc' = [pc EXCEPT ![t] = "ex_send"]
            /\ UNCHANGED outcome
       ELSE /\ outcome' = [outcome EXCEPT ![t] = Returned(None)]
            /\ pc' = [pc EXCEPT ![t] = "ex_returned"]
            /\ UNCHANGED <<hooks, self>>
    /\ UNCHANGED <<client, captured, lastConn, op, kwargs, log, cb>>

\* execute, first statement:
\*   hook = PostHogHook(posthog_conn_id=..., posthog_debug_mode=...)
ExHook(t) ==
    /\ pc[t] = "op_ready"
    /\ Construct(t, op[t].posthog_conn_id, op[t].posthog_debug_mode)
    /\ pc' = [pc EXCEPT ![t] = IF self'[t] # 0 THEN "ex_send" ELSE "ex_raised"]

\* execute, the rest: log.info(...); hook.capture(user_id=..., event=..., properties=...)
ExSend(t) ==
    /\ pc[t] = "ex_send"
    /\ log' = [log EXCEPT ![t] = "Sending track event (" \o op[t].event
                                   \o ") for user id: " \o op[t].user_id]
    /\ IF HasAttr("capture")
       THEN /\ captured' = [captured EXCEPT ![t] =
                              Append(@, [user_id |-> op[t].user_id,
                                         event |-> op[t].event,
                                         properties |-> op[t].properties])]
            /\ outcome' = [outcome EXCEPT ![t] = Returned(None)]
            /\ pc' = [pc EXCEPT ![t] = "ex_returned"]
       ELSE /\ outcome' = [outcome EXCEPT ![t] =
                             Raised("AttributeError",
                                    "'PostHogHook' object has no attribute 'capture'")]
            /\ pc' = [pc EXCEPT ![t] = "ex_raised"]
            /\ UNCHANGED captured
    /\ UNCHANGED <<client, hooks, lastConn, self, init, op, kwargs, cb>>

\* The thread's task is over; it drops its references.
Release(t) ==
    /\ pc[t] \in {"hooked", "got", "raised", "ex_raised", "ex_returned"}
    /\ pc' = [pc EXCEPT ![t] = "idle"]
    /\ self' = [self EXCEPT ![t] = 0]
    /\ init' = [init EXCEPT ![t] = None]
    /\ op' = [op EXCEPT ![t] = NoOp]
    /\ kwargs' = [kwargs EXCEPT ![t] = PyNone]
    /\ outcome' = [outcome EXCEPT ![t] = NoOutcome]
    /\ log' = [log EXCEPT ![t] = ""]
    /\ captured' = [captured EXCEPT ![t] = <<>>]
    /\ UNCHANGED <<client, hooks, lastConn, cb>>

-----------------------------------------------------------------------------
(* The vendor client reports a delivery error through the installed callback *)

Errors == {"rate limited"}
Items == {"evt-123"}

\* posthog.on_error(error, items), i.e. hooks[client.on_error].on_error(error, items)
ClientError(error, items) ==
    LET r == on_error(error, items) IN
    /\ cb.pc = "idle"
    /\ client.on_error # 0
    /\ cb' = [pc |-> "called",
              debug |-> hooks[client.on_error].posthog_debug_mode,
              error |-> error, items |-> items,
              log |-> r.log, outcome |-> r.outcome]
    /\ UNCHANGED <<client, captured, hooks, lastConn, pc, self, init, op, kwargs,
                   outcome, log>>

CallbackDone ==
    /\ cb.pc = "called"
    /\ cb' = [pc |-> "idle", debug |-> FALSE, error |-> "", items |-> "",
              log |-> "", outcome |-> NoOutcome]
    /\ UNCHANGED <<client, captured, hooks, lastConn, pc, self, init, op, kwargs,
                   outcome, log>>

-----------------------------------------------------------------------------
(* Specifications *)

Next ==
    \/ \E t \in Threads, c \in ConnIds, d \in BOOLEAN : HookInit(t, c, d)
    \/ \E t \in Threads : GcDebug(t)
    \/ \E t \in Threads : GcOnError(t)
    \/ \E t \in Threads : GcKey(t)
    \/ \E t \in Threads : GcReturn(t)
    \/ \E t \in Executors, u \in UserIds, e \in Events, p \in PropertyArgs,
          c \in ConnIds, d \in DebugArgs : NewOperator(t, u, e, p, c, d)
    \/ \E t \in Executors : ExHook(t)
    \/ \E t \in Executors : ExSend(t)
    \/ \E t \in Threads : Release(t)
    \/ \E e \in Errors, i \in Items : ClientError(e, i)
    \/ CallbackDone

\* Threads of one process, interleaving freely.
Spec == Init /\ [][Next]_vars

\* No other thread is inside get_conn.
Alone(t) == \A u \in Threads \ {t} : pc[u] \notin InGetConn

NextSeq ==
    \/ \E t \in Threads, c \in ConnIds, d \in BOOLEAN : HookInit(t, c, d)
    \/ \E t \in Threads : Alone(t) /\ GcDebug(t)
    \/ \E t \in Threads : Alone(t) /\ GcOnError(t)
    \/ \E t \in Threads : Alone(t) /\ GcKey(t)
    \/ \E t \in Threads : Alone(t) /\ GcReturn(t)
    \/ \E t \in Executors, u \in UserIds, e \in Events, p \in PropertyArgs,
          c \in ConnIds, d \in DebugArgs : NewOperator(t, u, e, p, c, d)
    \/ \E t \in Executors : ExHook(t)
    \/ \E t \in Executors : ExSend(t)
    \/ \E t \in Threads : Release(t)
    \/ \E e \in Errors, i \in Items : ClientError(e, i)
    \/ CallbackDone

\* The same process with get_conn calls made one after the other.
SpecSeq == Init /\ [][NextSeq]_vars

-----------------------------------------------------------------------------
(* Vocabulary of the properties *)

\* The connection record exists and its extras have no project_api_key.
LacksKey(c) ==
    /\ c \in DOMAIN ConnectionStore
    /\ "project_api_key" \notin DOMAIN ConnectionStore[c]

\* The configuration hook i applies to the client.
Config(i) == [debug |-> hooks[i].posthog_debug_mode,
              on_error |-> i,
              project_api_key |-> hooks[i].project_api_key]

\* Thread t's execute has ended.
Executed(t) == pc[t] \in {"ex_raised", "ex_returned"}

\* The hook of thread t's operator can be constructed.
Constructible(t) ==
    PostHogHook(op[t].posthog_conn_id, op[t].posthog_debug_mode).ok

\* The step is thread t's PostHogHook construction.
ConstructionStep(t) ==
    \/ pc[t] = "idle" /\ pc'[t] \in {"hooked", "raised"}
    \/ pc[t] = "op_ready" /\ pc'[t] \in {"ex_send", "ex_raised"}

\* No get_conn has begun so far.
NoGetConnYet == lastConn = 0 /\ \A t \in Threads : pc[t] \notin InGetConn

-----------------------------------------------------------------------------
(* C1: when execute has ended for an operator whose connection holds a     *)
(* project_api_key, it has returned normally and the client's capture has  *)
(* been called exactly once, with the operator's user_id, event and        *)
(* properties as they are.                                                 *)
C1_CaptureOnce ==
    \A t \in Executors :
        (Executed(t) /\ Constructible(t)) =>
            /\ outcome[t] = Returned(None)
            /\ captured[t] = <<[user_id |-> op[t].user_id,
                                event |-> op[t].event,
                                properties |-> op[t].properties]>>

C3_ConstructionConfigures ==
    \A t \in Threads :
        pc[t] \in {"hooked", "ex_send"} =>
            /\ client.project_api_key = hooks[self[t]].project_api_key
            /\ client.debug = hooks[self[t]].posthog_debug_mode

(* C3, amended: a completed construction holds the record's key and        *)
(* leaves the client as it was (still unconfigured while no get_conn has   *)
(* begun); the client's project_api_key and debug are the hook's once the  *)
(* hook's get_conn has made its writes, no other get_conn interleaved.     *)
C3_GetConnConfigures ==
    \A t \in Threads :
        /\ pc[t] \in {"hooked", "ex_send"} =>
              /\ hooks[self[t]].project_api_key
                    = ConnectionStore[init[t]].project_api_key
              /\ NoGetConnYet => client = ClientInit
        /\ pc[t] = "gc_return" =>
              /\ client.project_api_key = hooks[self[t]].project_api_key
              /\ client.debug = hooks[self[t]].posthog_debug_mode

C3_Witness ==
    \E t \in Threads :
        /\ pc[t] = "gc_return"
        /\ hooks[self[t]].posthog_debug_mode
        /\ hooks[self[t]].project_api_key = "xyz"
        /\ lastConn \notin {0, self[t]}

(* C4, as stated: after two hooks with different keys have been            *)
(* constructed one after the other (and nothing else has been done), the   *)
(* client's project_api_key is the second hook's key.                      *)
C4_SecondConstructionWins ==
    (Len(hooks) = 2
        /\ hooks[1].project_api_key # hooks[2].project_api_key
        /\ NoGetConnYet)
    => client.project_api_key = hooks[2].project_api_key

(* C4, amended: constructions alone leave the client's key unset; after    *)
(* get_conn calls made one after the other the client's project_api_key    *)
(* and on_error are those of the hook whose get_conn returned last, and    *)
(* the key of a hook with a different key is not the client's.             *)
C4_LastGetConnWins ==
    (\A t \in Threads : pc[t] \notin InGetConn) =>
        IF lastConn = 0
        THEN client = ClientInit
        ELSE /\ client.project_api_key = hooks[lastConn].project_api_key
             /\ client.on_error = lastConn
             /\ \A i \in 1..Len(hooks) :
                   hooks[i].project_api_key # hooks[lastConn].project_api_key
                      => client.project_api_key # hooks[i].project_api_key

C4_Witness ==
    \E t, u \in Threads :
        /\ pc[t] = "got" /\ pc[u] = "got"
        /\ self[t] = 1 /\ self[u] = 2
        /\ hooks[1].project_api_key # hooks[2].project_api_key
        /\ lastConn = 2
        /\ client.project_api_key = hooks[2].project_api_key

(* C5: when execute has ended for an operator built with properties        *)
(* omitted (None) and a connection that holds a key, capture has been      *)
(* called with properties equal to the empty map and with the user_id and  *)
(* event given.                                                            *)
C5_EmptyProperties ==
    \A t \in Executors :
        (Executed(t) /\ Constructible(t) /\ kwargs[t] = PyNone) =>
            /\ Len(captured[t]) = 1
            /\ captured[t][1].properties = EmptyDict
            /\ captured[t][1].user_id = op[t].user_id
            /\ captured[t][1].event = op[t].event

(* C6: when a hook's get_conn, with no other get_conn interleaved, has     *)
(* made its writes, the client's debug, on_error and project_api_key are   *)
(* the hook's, whatever its debug flag; what it returns is the shared      *)
(* client.                                                                 *)
C6_GetConnApplies ==
    \A t \in Threads :
        /\ pc[t] = "gc_return" => client = Config(self[t])
        /\ pc[t] = "got" => outcome[t] = Returned(ClientRef)

C6_Witness ==
    \E t \in Threads :
        /\ pc[t] = "got"
        /\ ~hooks[self[t]].posthog_debug_mode
        /\ client = Config(self[t])
        /\ \E i \in 1..Len(hooks) : i # self[t] /\ hooks[i].posthog_debug_mode

(* C7: an invocation of the callback with an error and an item has logged  *)
(* both and ended in AirflowException with a message that contains the     *)
(* error, whatever the debug flag of the hook.                             *)
C7_OnErrorRaises ==
    cb.pc = "called" =>
        /\ Contains(cb.log, cb.error)
        /\ Contains(cb.log, cb.items)
        /\ cb.outcome.status = "raised"
        /\ cb.outcome.exc = "AirflowException"
        /\ Contains(cb.outcome.msg, cb.error)

C7_Witness ==
    /\ cb.pc = "called"
    /\ cb.error = "rate limited"
    /\ ~cb.debug
    /\ cb.outcome.status = "raised"

C9_NoMixture ==
    \A t, u \in Threads :
        (/\ pc[t] = "got" /\ pc[u] = "got"
         /\ hooks[self[t]].project_api_key # hooks[self[u]].project_api_key
         /\ hooks[self[t]].posthog_debug_mode # hooks[self[u]].posthog_debug_mode)
        => (client = Config(self[t]) \/ client = Config(self[u]))

(* C9, amended: when two threads have each completed get_conn, each of the *)
(* client's debug, on_error and project_api_key is that field of one of    *)
(* the two hooks; the three need not come from the same hook.              *)
C9_FieldwiseLastWriter ==
    \A t, u \in Threads :
        (pc[t] = "got" /\ pc[u] = "got" /\ t # u) =>
            /\ client.debug \in {hooks[self[t]].posthog_debug_mode,
                                 hooks[self[u]].posthog_debug_mode}
            /\ client.on_error \in {self[t], self[u]}
            /\ client.project_api_key \in {hooks[self[t]].project_api_key,
                                           hooks[self[u]].project_api_key}

C9_Witness ==
    \E t, u \in Threads :
        /\ pc[t] = "got" /\ pc[u] = "got"
        /\ hooks[self[t]].project_api_key # hooks[self[u]].project_api_key
        /\ hooks[self[t]].posthog_debug_mode # hooks[self[u]].posthog_debug_mode
        /\ client # Config(self[t])
        /\ client # Config(self[u])

(* C10: the client's project_api_key is its initial value or the key of a  *)
(* constructed hook; every constructed hook has a key; a thread whose      *)
(* construction failed holds no hook, and once a get_conn has written the  *)
(* key it is not null.                                                     *)
C10_KeyFromConstructedHook ==
    /\ \/ client.project_api_key = ClientInit.project_api_key
       \/ \E i \in 1..Len(hooks) : hooks[i].project_api_key = client.project_api_key
    /\ \A i \in 1..Len(hooks) : hooks[i].project_api_key # None
    /\ \A t \in Threads :
          (pc[t] \in {"raised", "ex_raised"} /\ ~PostHogHook(init[t], FALSE).ok)
             => self[t] = 0
    /\ (lastConn # 0 \/ \E t \in Threads : pc[t] = "gc_return")
          => client.project_api_key # None

C10_Witness ==
    /\ \E t \in Threads : pc[t] = "raised" /\ LacksKey(init[t])
    /\ \E t \in Threads : pc[t] = "got"
    /\ client.project_api_key = "abc"
    /\ lastConn # 0

====
